---- MODULE Spec2Model ----
(***************************************************************************)
(* Model of the delivery event bus of graphqlTinyExample                    *)
(* (pkg/events/events.go), of the resolvers that publish to it and          *)
(* subscribe from it (pkg/graphql/resolver.go), and of the WebSocket        *)
(* session handler of the server.                                           *)
(*                                                                          *)
(* Strings are sequences of one-character strings, so that strconv.Atoi and *)
(* strconv.Itoa are computed and not assumed to be inverse of each other.   *)
(* A channel of the bus is identified by the order of its creation.  An     *)
(* event holds a pointer to a models.Delivery: the id of a row of           *)
(* deliveries.                                                              *)
(***************************************************************************)
EXTENDS Integers, Sequences, FiniteSets, TLC

\* Bounds of the model: the channels callers of the EventBus make, the
\* deliveries they publish, the DeliveryUpdated subscriptions and the
\* CreateDelivery mutations that succeed.
MaxChans == 2
MaxDeliveries == 2
MaxSubs == 1
MaxCreated == 2

\* Bounds of the WebSocket session: the start messages accepted and the
\* messages written to one connection.
MaxStarts == 2
MaxOut == 2

\* Messages the client's reader goroutine reads at most.
MaxRead == 2

\* make(chan DeliveryEvent, 1)
ChanCap == 1

\* Goroutines that serve mutations (net/http runs each request in its own).
Workers == {"w1", "w2"}

(***************************************************************************)
(* Strings and the strconv conversions.                                     *)
(***************************************************************************)
Digits == <<"0", "1", "2", "3", "4", "5", "6", "7", "8", "9">>

IsDigit(c) == \E i \in 1..10 : Digits[i] = c

DigitVal(c) == (CHOOSE i \in 1..10 : Digits[i] = c) - 1

RECURSIVE ParseDigits(_, _)
ParseDigits(s, acc) ==
    IF s = <<>> THEN acc
    ELSE ParseDigits(Tail(s), acc * 10 + DigitVal(Head(s)))

\* strconv.Atoi: an optional sign, then at least one decimal digit.
Atoi(s) ==
    LET signed == s # <<>> /\ Head(s) \in {"+", "-"}
        body == IF signed THEN Tail(s) ELSE s
    IN  IF body = <<>> \/ \E i \in 1..Len(body) : ~IsDigit(body[i])
        THEN [ok |-> FALSE, val |-> 0]
        ELSE [ok |-> TRUE,
              val |-> IF signed /\ Head(s) = "-"
                      THEN 0 - ParseDigits(body, 0)
                      ELSE ParseDigits(body, 0)]

RECURSIVE ItoaNat(_)
ItoaNat(n) ==
    IF n < 10 THEN <<Digits[n + 1]>>
    ELSE Append(ItoaNat(n \div 10), Digits[(n % 10) + 1])

\* strconv.Itoa
Itoa(n) == IF n < 0 THEN <<"-">> \o ItoaNat(0 - n) ELSE ItoaNat(n)

\* The key of the subscribers interested in all deliveries.
Wildcard == <<>>

(***************************************************************************)
(* EventBus: the registry and the channel operations.                       *)
(***************************************************************************)
NewEventBus == <<>>

\* A registration that takes a channel made earlier instead of a new one.
SubscribeToDeliveriesStale(m, key, ch) ==
    LET old == IF ch > 1 THEN ch - 1 ELSE ch
    IN  IF key \in DOMAIN m
        THEN [m EXCEPT ![key] = @ \cup {old}]
        ELSE [k \in DOMAIN m \cup {key} |-> IF k = key THEN {old} ELSE m[k]]

\* The map after SubscribeToDeliveries(key) has registered the new channel ch.
SubscribeToDeliveries(m, key, ch) ==
    IF key \in DOMAIN m
    THEN [m EXCEPT ![key] = @ \cup {ch}]
    ELSE [k \in DOMAIN m \cup {key} |-> IF k = key THEN {ch} ELSE m[k]]

UnsubscribeNoPrune(m, key, ch) ==
    IF key \in DOMAIN m THEN [m EXCEPT ![key] = @ \ {ch}] ELSE m

\* The map after Unsubscribe(key, ch).
Unsubscribe(m, key, ch) ==
    IF key \in DOMAIN m
    THEN LET rest == m[key] \ {ch}
         IN  IF rest = {}
             THEN [k \in DOMAIN m \ {key} |-> m[k]]
             ELSE [m EXCEPT ![key] = rest]
    ELSE m

TrySendDropOldest(q, e) ==
    IF Len(q) < ChanCap THEN Append(q, e) ELSE Append(Tail(q), e)

\* The result of  select { case ch <- event: ... default: ... }  on a channel
\* whose queue is q: the event is queued when there is room, else skipped.
TrySend(q, e) == IF Len(q) < ChanCap THEN Append(q, e) ELSE q

\* Whether that send takes its first case.
SendAccepted(q) == Len(q) < ChanCap

KeyedTargetsAnyPurchase(m, purchaseID) ==
    UNION {m[k] : k \in DOMAIN m \ {Wildcard}}

\* PublishDelivery, first loop: the subscribers of the delivery's purchase.
KeyedTargets(m, purchaseID) ==
    IF Itoa(purchaseID) \in DOMAIN m THEN m[Itoa(purchaseID)] ELSE {}

\* A second loop over every channel of the registry.
GlobalTargetsEveryKey(m) == UNION {m[k] : k \in DOMAIN m}

GlobalTargetsForgotten(m) == {}

\* PublishDelivery, second loop: the subscribers of all deliveries.
GlobalTargets(m) == IF Wildcard \in DOMAIN m THEN m[Wildcard] ELSE {}

(***************************************************************************)
(* State.                                                                   *)
(***************************************************************************)
VARIABLES
    subscribers,  \* EventBus.subscribers: key -> set of channels
    buf,          \* the queue of each channel made by SubscribeToDeliveries
    chanKey,      \* the key each channel was registered under when made
    deliveries,   \* the models.Delivery values made so far (rows of the table)
    workers,      \* the goroutines that run CreateDelivery / PublishDelivery
    subs,         \* the DeliveryUpdated subscriptions, one per channel
    panicked,     \* a goroutine panicked: the process is gone
    last,         \* history: the last call made on the registry
    conns,        \* per WebSocket connection: the handler's state and its subscriptions map
    handles,      \* the quit channels made by start messages, each with its goroutine
    wsOut,        \* per connection, the messages written to it
    sql,          \* the statement the repository built last, with its arguments
    writers,      \* per writer goroutine, its call waiting in b.mu.Lock()
    client,       \* the command-line client inside executeSubscription
    emitted       \* history: per subscription, the events sent on its output channel

\* The variables of the bus and the resolvers, and those of the WebSocket session.
busVars == <<subscribers, buf, chanKey, deliveries, workers, subs, panicked, last, writers>>

wsVars == <<conns, handles, wsOut>>

repoVars == <<sql>>

lockVars == <<writers>>

vars == <<subscribers, buf, chanKey, deliveries, workers, subs, panicked, last,
          conns, handles, wsOut, sql, writers, client, emitted>>

NoCall == [op |-> "none"]

\* The client before executeSubscription dials: where it is, the id it made
\* with uuid.New(), the messages it has written, the type of the message it
\* read as the acknowledgement, the messages its reader goroutine has read, and
\* whether done is closed, the interrupt has come, the stop was tried and the
\* connection is closed.
NewClient ==
    [pc |-> "dial", id |-> "", sent |-> <<>>, first |-> "none", read |-> <<>>,
     reader |-> "none", interrupted |-> FALSE, stopTried |-> FALSE,
     closed |-> FALSE, result |-> "none"]

\* Goroutines that call SubscribeToDeliveries and Unsubscribe.
Writers == {"u1", "u2"}

\* No statement built yet.
NoQuery == [op |-> "none"]

\* WebSocket connections, and a handler as handleWebSocketConnection starts:
\* subscriptions := make(map[string]chan struct{}).  handled is history: the
\* kind of the message the read loop handled last before it read on.
Conns == {"c1"}

\* The connections of the server when two clients are connected.
AllConns == Conns \cup {"c2"}

NewConn == [state |-> "open", subscriptions |-> <<>>, handled |-> "none", writing |-> {}]

\* pc, the delivery being published and the channels still to visit.  The rest
\* is history: got and skipped are the channels the running PublishDelivery
\* queued its event on and those it skipped; res is the result of the
\* CreateDelivery that runs or that failed last, arg the purchase id it was
\* given and inputOk whether its input was good.
IdleWorker ==
    [pc |-> "idle", ev |-> 0, todo |-> {}, got |-> {}, skipped |-> {},
     res |-> "none", arg |-> <<>>, inputOk |-> TRUE]

\* sync.RWMutex: a worker between RLock and RUnlock of PublishDelivery.
Reading(w) == workers[w].pc \in {"keyed", "global"}

\* A mutex that lets writers in while a PublishDelivery ranges over the map.
CanLockWhileRead == TRUE

\* Lock() is granted when no reader holds the mutex.  The critical sections of
\* SubscribeToDeliveries and Unsubscribe block on nothing and are one step.
CanLock == \A w \in Workers : ~Reading(w)

Chans == 1..Len(chanKey)

Init ==
    /\ subscribers = NewEventBus
    /\ buf = <<>>
    /\ chanKey = <<>>
    /\ deliveries = <<>>
    /\ workers = [w \in Workers |-> IdleWorker]
    /\ subs = <<>>
    /\ panicked = FALSE
    /\ conns = [c \in AllConns |-> NewConn]
    /\ handles = <<>>
    /\ wsOut = [c \in AllConns |-> <<>>]
    /\ sql = NoQuery
    /\ writers = [u \in Writers |-> NoCall]
    /\ last = NoCall
    /\ client = NewClient
    /\ emitted = [s \in 1..MaxSubs |-> <<>>]

(***************************************************************************)
(* PublishDelivery.  The read lock is held from the call to PublishEnd; the *)
(* order of  for ch := range subscribers  is any order.  RLock never waits: *)
(* no writer is ever inside its critical section between two steps.         *)
(***************************************************************************)

\* The loop a worker is in once the channels of its current loop are visited:
\* after the subscribers of the purchase, the subscribers of all deliveries.
NextLoop(wr, m) ==
    IF wr.pc = "keyed" /\ wr.todo = {}
    THEN [wr EXCEPT !.pc = "global", !.todo = GlobalTargets(m)]
    ELSE wr

\* The worker as it enters PublishDelivery(d) with the registry m.
EnterPublish(wr, d, purchaseID, m) ==
    NextLoop([wr EXCEPT !.pc = "keyed", !.ev = d, !.got = {}, !.skipped = {},
                        !.todo = KeyedTargets(m, purchaseID)], m)

\* A send that waits for room:  ch <- event  outside a select.
PublishSendBlocking(w, ch) ==
    /\ ~panicked
    /\ Reading(w)
    /\ ch \in workers[w].todo
    /\ SendAccepted(buf[ch])
    /\ buf' = [buf EXCEPT ![ch] = Append(@, workers[w].ev)]
    /\ workers' = [workers EXCEPT ![w] =
           NextLoop([@ EXCEPT !.todo = @ \ {ch}, !.got = @ \cup {ch}], subscribers)]
    /\ last' = NoCall
    /\ UNCHANGED <<wsVars, repoVars, lockVars, client, emitted>>
    /\ UNCHANGED <<subscribers, chanKey, deliveries, subs, panicked>>

\* A default case that leaves the loop at the first full channel.
PublishSendBreak(w, ch) ==
    /\ ~panicked
    /\ Reading(w)
    /\ ch \in workers[w].todo
    /\ buf' = [buf EXCEPT ![ch] = TrySend(@, workers[w].ev)]
    /\ workers' = [workers EXCEPT ![w] =
           NextLoop([@ EXCEPT !.todo = IF SendAccepted(buf[ch]) THEN @ \ {ch} ELSE {},
                      !.got = IF SendAccepted(buf[ch]) THEN @ \cup {ch} ELSE @,
                      !.skipped = IF SendAccepted(buf[ch]) THEN @ ELSE @ \cup {ch}],
                    subscribers)]
    /\ last' = NoCall
    /\ UNCHANGED <<wsVars, repoVars, lockVars, client, emitted>>
    /\ UNCHANGED <<subscribers, chanKey, deliveries, subs, panicked>>

PublishSend(w, ch) ==
    /\ ~panicked
    /\ Reading(w)
    /\ ch \in workers[w].todo
    /\ buf' = [buf EXCEPT ![ch] = TrySend(@, workers[w].ev)]
    /\ workers' = [workers EXCEPT ![w] =
           NextLoop([@ EXCEPT !.todo = @ \ {ch},
                      !.got = IF SendAccepted(buf[ch]) THEN @ \cup {ch} ELSE @,
                      !.skipped = IF SendAccepted(buf[ch]) THEN @ ELSE @ \cup {ch}],
                    subscribers)]
    /\ last' = NoCall
    /\ UNCHANGED <<wsVars, repoVars, lockVars, client, emitted>>
    /\ UNCHANGED <<subscribers, chanKey, deliveries, subs, panicked>>

\* RUnlock and return.
PublishEnd(w) ==
    /\ ~panicked
    /\ workers[w].pc = "global"
    /\ workers[w].todo = {}
    /\ workers' = [workers EXCEPT ![w] = IdleWorker]
    /\ last' = NoCall
    /\ UNCHANGED <<wsVars, repoVars, lockVars, client, emitted>>
    /\ UNCHANGED <<subscribers, buf, chanKey, deliveries, subs, panicked>>

PublishStep(w) ==
    \/ \E ch \in Chans : PublishSend(w, ch)
    \/ PublishEnd(w)

(***************************************************************************)
(* The EventBus driven through its exported methods by arbitrary callers.   *)
(***************************************************************************)
Str(c) == <<c>>

\* Keys callers subscribe with, and keys they unsubscribe with.
BusKeys == {Wildcard, Str("1")}

UnsubKeys == BusKeys \cup {Str("2")}

\* Purchase ids of the deliveries callers publish.
BusPurchases == {1, 2}

\* Goroutines are interchangeable: the second starts only while the first runs.
MayStart(w) ==
    /\ workers[w].pc = "idle"
    /\ w = "w2" => workers["w1"].pc # "idle"

\* b.SubscribeToDeliveries(key): makes the channel and registers it.
Subscribing(key) ==
    /\ ~panicked
    /\ CanLock
    /\ Len(chanKey) < MaxChans
    /\ subscribers' = SubscribeToDeliveries(subscribers, key, Len(chanKey) + 1)
    /\ chanKey' = Append(chanKey, key)
    /\ buf' = Append(buf, <<>>)
    /\ UNCHANGED <<deliveries, workers, subs, panicked>>

\* b.Unsubscribe(key, ch)
Unsubscribing(key, ch) ==
    /\ ~panicked
    /\ CanLock
    /\ subscribers' = Unsubscribe(subscribers, key, ch)
    /\ UNCHANGED <<buf, chanKey, deliveries, workers, subs, panicked>>

BusSubscribe(key) == Subscribing(key) /\ last' = NoCall /\ UNCHANGED <<wsVars, repoVars, lockVars, client, emitted>>

BusUnsubscribe(key, ch) == Unsubscribing(key, ch) /\ last' = NoCall /\ UNCHANGED <<wsVars, repoVars, lockVars, client, emitted>>

BusPublishDelivery(w, purchaseID) ==
    /\ ~panicked
    /\ MayStart(w)
    /\ Len(deliveries) < MaxDeliveries
    /\ deliveries' = Append(deliveries, [purchaseID |-> purchaseID, status |-> "packed"])
    /\ workers' = [workers EXCEPT ![w] =
           EnterPublish(IdleWorker, Len(deliveries) + 1, purchaseID, subscribers)]
    /\ last' = NoCall
    /\ UNCHANGED <<wsVars, repoVars, lockVars, client, emitted>>
    /\ UNCHANGED <<subscribers, buf, chanKey, subs, panicked>>

\* A consumer takes the head of a channel:  <-ch
BusReceive(ch) ==
    /\ ~panicked
    /\ buf[ch] # <<>>
    /\ buf' = [buf EXCEPT ![ch] = Tail(@)]
    /\ last' = NoCall
    /\ UNCHANGED <<wsVars, repoVars, lockVars, client, emitted>>
    /\ UNCHANGED <<subscribers, chanKey, deliveries, workers, subs, panicked>>

NextBus ==
    \/ \E key \in BusKeys : BusSubscribe(key)
    \/ \E key \in UnsubKeys, ch \in 1..MaxChans : BusUnsubscribe(key, ch)
    \/ \E w \in Workers, p \in BusPurchases : BusPublishDelivery(w, p)
    \/ \E w \in Workers : PublishStep(w)
    \/ \E ch \in Chans : BusReceive(ch)

SpecBus == Init /\ [][NextBus]_vars

(***************************************************************************)
(* The EventBus with the calls that wait for its sync.RWMutex.  A call of   *)
(* Lock() keeps later RLock() calls waiting until it has had the lock; the   *)
(* readers that wait are let in when the writer unlocks.                     *)
(***************************************************************************)

\* Purchase ids of the deliveries published while calls wait for the mutex.
LockPurchases == {1}

\* Some writer waits in Lock().
WriterWaits == \E u \in Writers : writers[u] # NoCall

\* The SubscribeToDeliveries calls that wait.
SubscribesWaiting == {u \in Writers : writers[u] # NoCall /\ writers[u].op = "Subscribe"}

\* A goroutine calls SubscribeToDeliveries(key) or Unsubscribe(key, ch) and
\* waits in b.mu.Lock().
LockCall(u, op, key, ch) ==
    /\ ~panicked
    /\ writers[u] = NoCall
    /\ u = "u2" => writers["u1"] # NoCall
    /\ op = "Subscribe" => Len(chanKey) + Cardinality(SubscribesWaiting) < MaxChans
    /\ writers' = [writers EXCEPT ![u] = [op |-> op, key |-> key, ch |-> ch]]
    /\ last' = NoCall
    /\ UNCHANGED <<subscribers, buf, chanKey, deliveries, workers, subs, panicked>>
    /\ UNCHANGED <<wsVars, repoVars, client, emitted>>

\* The worker as RLock() returns with the registry m.
Admit(wr, m) ==
    IF wr.pc = "rlock"
    THEN EnterPublish(IdleWorker, wr.ev, deliveries[wr.ev].purchaseID, m)
    ELSE wr

\* Lock() returns once no reader holds the mutex; the body of the method and
\* its deferred Unlock() follow without waiting for anything, and Unlock()
\* hands the mutex to the readers that waited meanwhile.
LockAcquire(u) ==
    /\ ~panicked
    /\ writers[u] # NoCall
    /\ CanLock
    /\ IF writers[u].op = "Subscribe"
       THEN /\ subscribers' = SubscribeToDeliveries(subscribers, writers[u].key,
                                                    Len(chanKey) + 1)
            /\ chanKey' = Append(chanKey, writers[u].key)
            /\ buf' = Append(buf, <<>>)
       ELSE /\ subscribers' = Unsubscribe(subscribers, writers[u].key, writers[u].ch)
            /\ UNCHANGED <<buf, chanKey>>
    /\ workers' = [w \in Workers |-> Admit(workers[w], subscribers')]
    /\ writers' = [writers EXCEPT ![u] = NoCall]
    /\ last' = NoCall
    /\ UNCHANGED <<deliveries, subs, panicked>>
    /\ UNCHANGED <<wsVars, repoVars, client, emitted>>

\* A goroutine calls PublishDelivery(delivery) and waits in b.mu.RLock().
PublishCall(w, purchaseID) ==
    /\ ~panicked
    /\ MayStart(w)
    /\ Len(deliveries) < MaxDeliveries
    /\ deliveries' = Append(deliveries, [purchaseID |-> purchaseID, status |-> "packed"])
    /\ workers' = [workers EXCEPT ![w] =
           [IdleWorker EXCEPT !.pc = "rlock", !.ev = Len(deliveries) + 1]]
    /\ last' = NoCall
    /\ UNCHANGED <<subscribers, buf, chanKey, subs, panicked>>
    /\ UNCHANGED <<wsVars, repoVars, lockVars, client, emitted>>

\* RLock() returns at once when no writer waits for or holds the mutex.
PublishRLock(w) ==
    /\ ~panicked
    /\ workers[w].pc = "rlock"
    /\ ~WriterWaits
    /\ workers' = [workers EXCEPT ![w] = Admit(@, subscribers)]
    /\ last' = NoCall
    /\ UNCHANGED <<subscribers, buf, chanKey, deliveries, subs, panicked>>
    /\ UNCHANGED <<wsVars, repoVars, lockVars, client, emitted>>

NextLock ==
    \/ \E u \in Writers, key \in BusKeys : LockCall(u, "Subscribe", key, 0)
    \/ \E u \in Writers, key \in BusKeys, ch \in Chans :
           LockCall(u, "Unsubscribe", key, ch)
    \/ \E u \in Writers : LockAcquire(u)
    \/ \E w \in Workers, p \in LockPurchases : PublishCall(w, p)
    \/ \E w \in Workers : PublishRLock(w)
    \/ \E w \in Workers : PublishStep(w)
    \/ \E ch \in Chans : BusReceive(ch)

\* The scheduler runs every goroutine that can run, and sync.Mutex, which
\* orders the writers of a sync.RWMutex, hands over to a writer that has
\* waited long.  Consumers owe nothing.
SpecLock ==
    /\ Init
    /\ [][NextLock]_vars
    /\ \A w \in Workers : WF_vars(PublishStep(w)) /\ WF_vars(PublishRLock(w))
    /\ \A u \in Writers : SF_vars(LockAcquire(u))

(***************************************************************************)
(* The registry alone, each call recorded with the map it found.            *)
(***************************************************************************)
RegSubscribe(key) ==
    /\ Subscribing(key)
    /\ last' = [op |-> "Subscribe", key |-> key, ch |-> Len(chanKey) + 1,
                pre |-> subscribers]
    /\ UNCHANGED <<wsVars, repoVars, lockVars, client, emitted>>

RegUnsubscribe(key, ch) ==
    /\ Unsubscribing(key, ch)
    /\ last' = [op |-> "Unsubscribe", key |-> key, ch |-> ch, pre |-> subscribers]
    /\ UNCHANGED <<wsVars, repoVars, lockVars, client, emitted>>

NextRegistry ==
    \/ \E key \in BusKeys : RegSubscribe(key)
    \/ \E key \in UnsubKeys, ch \in 1..MaxChans : RegUnsubscribe(key, ch)

SpecRegistry == Init /\ [][NextRegistry]_vars

(***************************************************************************)
(* The resolvers: CreateDelivery (mutation) and DeliveryUpdated             *)
(* (subscription) with its two goroutines.                                  *)
(***************************************************************************)

\* make(chan *DeliveryResolver, 1)
OutCap == 1

\* The rows of the purchases table (02_fixtures.sql); no mutation deletes one.
PurchaseRows == {1, 2}

\* repo.GetPurchase(id): QueryRow(...).Scan fails when there is no such row.
GetPurchase(id) == [ok |-> id \in PurchaseRows]

\* CreateDelivery's switch from the GraphQL enum to the database enum.
ToDBStatus(status) ==
    CASE status = "PACKED" -> [ok |-> TRUE, val |-> "packed"]
      [] status = "OUT_FOR_DELIVERY" -> [ok |-> TRUE, val |-> "out_for_delivery"]
      [] status = "DELIVERED" -> [ok |-> TRUE, val |-> "delivered"]
      [] status = "RESCHEDULED" -> [ok |-> TRUE, val |-> "rescheduled"]
      [] status = "CANCELED" -> [ok |-> TRUE, val |-> "canceled"]
      [] OTHER -> [ok |-> FALSE, val |-> ""]

CreateDeliveryUnchecked(purchaseID, status, dbOk) ==
    LET id == Atoi(purchaseID)
        st == ToDBStatus(status)
    IN  IF ~id.ok THEN [err |-> TRUE]
        ELSE IF ~st.ok THEN [err |-> TRUE]
        ELSE IF ~dbOk THEN [err |-> TRUE]
        ELSE [err |-> FALSE, row |-> [purchaseID |-> id.val, status |-> st.val]]

\* Resolver.CreateDelivery up to the insert: an error, or the row written.
\* dbOk is whether the INSERT of repo.CreateDelivery succeeds.
CreateDeliveryResult(purchaseID, status, dbOk) ==
    LET id == Atoi(purchaseID)
        st == ToDBStatus(status)
    IN  IF ~id.ok THEN [err |-> TRUE]
        ELSE IF ~GetPurchase(id.val).ok THEN [err |-> TRUE]
        ELSE IF ~st.ok THEN [err |-> TRUE]
        ELSE IF ~dbOk THEN [err |-> TRUE]
        ELSE [err |-> FALSE, row |-> [purchaseID |-> id.val, status |-> st.val]]

\* The goroutines that run the mutation.  Spec runs its mutations from one of
\* the workers; PublishDelivery calls that overlap are those of SpecBus.
Mutators == {"w1"}

\* Inputs of the mutation.
PurchaseIDInputs == {Str("1"), <<"0", "2">>, Str("3"), Str("x")}

StatusInputs == {"PACKED", "SHIPPED"}

\* What the schema and the tables call a good input: a decimal number that is
\* the id of a purchase, and one of the five values of enum DeliveryStatus.
DeliveryStatusEnum == {"PACKED", "OUT_FOR_DELIVERY", "DELIVERED", "RESCHEDULED", "CANCELED"}

IsNumber(s) ==
    /\ s # <<>>
    /\ \A i \in 1..Len(s) : s[i] \in {"0", "1", "2", "3", "4", "5", "6", "7", "8", "9"}

NumberOf(s) == CHOOSE n \in 0..99 : Itoa(n) = s \/ <<"0">> \o Itoa(n) = s

GoodInput(purchaseID, status, dbOk) ==
    /\ IsNumber(purchaseID)
    /\ NumberOf(purchaseID) \in PurchaseRows
    /\ status \in DeliveryStatusEnum
    /\ dbOk

\* The mutation: validation and insert in one step (no step of another
\* goroutine reads the table), then PublishDelivery from its RLock on.
CreateDelivery(w, purchaseID, status, dbOk) ==
    /\ ~panicked
    /\ MayStart(w)
    /\ LET r == CreateDeliveryResult(purchaseID, status, dbOk)
           good == GoodInput(purchaseID, status, dbOk)
       IN  IF r.err
           THEN /\ workers' = [workers EXCEPT ![w] =
                       [IdleWorker EXCEPT !.res = "err", !.inputOk = good]]
                /\ UNCHANGED deliveries
           ELSE /\ Len(deliveries) < MaxCreated
                /\ deliveries' = Append(deliveries, r.row)
                /\ workers' = [workers EXCEPT ![w] =
                       EnterPublish([IdleWorker EXCEPT !.res = "ok", !.arg = purchaseID,
                                                      !.inputOk = good],
                                    Len(deliveries) + 1, r.row.purchaseID, subscribers)]
    /\ last' = NoCall
    /\ UNCHANGED <<wsVars, repoVars, lockVars, client, emitted>>
    /\ UNCHANGED <<subscribers, buf, chanKey, subs, panicked>>

\* The argument of the subscription: no purchase id (nil), or one.
NoPurchaseID == {}

SubscriptionArgs == {NoPurchaseID, {Str("1")}}

PurchaseIDStrNilAsZero(arg) ==
    IF arg = NoPurchaseID THEN Str("0") ELSE CHOOSE k \in arg : TRUE

\* purchaseIDStr of DeliveryUpdated.
PurchaseIDStr(arg) == IF arg = NoPurchaseID THEN Wildcard ELSE CHOOSE k \in arg : TRUE

\* DeliveryUpdated(ctx, args): subscribes, makes c and starts the goroutine
\* that cleans up and the goroutine that forwards.
DeliveryUpdated(arg) ==
    /\ ~panicked
    /\ CanLock
    /\ Len(subs) < MaxSubs
    /\ subscribers' = SubscribeToDeliveries(subscribers, PurchaseIDStr(arg), Len(chanKey) + 1)
    /\ chanKey' = Append(chanKey, PurchaseIDStr(arg))
    /\ buf' = Append(buf, <<>>)
    /\ subs' = Append(subs, [arg |-> arg, key |-> PurchaseIDStr(arg), ctxDone |-> FALSE,
                            cleanup |-> "wait", fwd |-> "recv", fwdEv |-> 0,
                            out |-> <<>>, outClosed |-> FALSE])
    /\ last' = NoCall
    /\ UNCHANGED <<wsVars, repoVars, lockVars, client, emitted>>
    /\ UNCHANGED <<deliveries, workers, panicked>>

\* The context of the subscription is cancelled (by whoever holds its cancel).
Cancel(s) ==
    /\ ~panicked
    /\ ~subs[s].ctxDone
    /\ subs' = [subs EXCEPT ![s].ctxDone = TRUE]
    /\ last' = NoCall
    /\ UNCHANGED <<wsVars, repoVars, lockVars, client, emitted>>
    /\ UNCHANGED <<subscribers, buf, chanKey, deliveries, workers, panicked>>

\* A clean-up that first waits until the client has taken what is in c.
CleanupUnsubscribeAfterFlush(s) ==
    /\ ~panicked
    /\ subs[s].cleanup = "wait"
    /\ subs[s].ctxDone
    /\ subs[s].out = <<>>
    /\ CanLock
    /\ subscribers' = Unsubscribe(subscribers, subs[s].key, s)
    /\ subs' = [subs EXCEPT ![s].cleanup = "close"]
    /\ last' = NoCall
    /\ UNCHANGED <<wsVars, repoVars, lockVars, client, emitted>>
    /\ UNCHANGED <<buf, chanKey, deliveries, workers, panicked>>

\* Clean-up goroutine:  <-ctx.Done(); r.eventBus.Unsubscribe(purchaseIDStr, events)
CleanupUnsubscribe(s) ==
    /\ ~panicked
    /\ subs[s].cleanup = "wait"
    /\ subs[s].ctxDone
    /\ CanLock
    /\ subscribers' = Unsubscribe(subscribers, subs[s].key, s)
    /\ subs' = [subs EXCEPT ![s].cleanup = "close"]
    /\ last' = NoCall
    /\ UNCHANGED <<wsVars, repoVars, lockVars, client, emitted>>
    /\ UNCHANGED <<buf, chanKey, deliveries, workers, panicked>>

\* Clean-up goroutine:  close(c)
CleanupClose(s) ==
    /\ ~panicked
    /\ subs[s].cleanup = "close"
    /\ subs' = [subs EXCEPT ![s].cleanup = "done", ![s].outClosed = TRUE]
    /\ last' = NoCall
    /\ UNCHANGED <<wsVars, repoVars, lockVars, client, emitted>>
    /\ UNCHANGED <<subscribers, buf, chanKey, deliveries, workers, panicked>>

\* Forwarder:  for event := range events
ForwardReceive(s) ==
    /\ ~panicked
    /\ subs[s].fwd = "recv"
    /\ buf[s] # <<>>
    /\ subs' = [subs EXCEPT ![s].fwd = "select", ![s].fwdEv = Head(buf[s])]
    /\ buf' = [buf EXCEPT ![s] = Tail(@)]
    /\ last' = NoCall
    /\ UNCHANGED <<wsVars, repoVars, lockVars, client, emitted>>
    /\ UNCHANGED <<subscribers, chanKey, deliveries, workers, panicked>>

\* Forwarder, select:  case <-ctx.Done(): return
ForwardDone(s) ==
    /\ ~panicked
    /\ subs[s].fwd = "select"
    /\ subs[s].ctxDone
    /\ subs' = [subs EXCEPT ![s].fwd = "exit", ![s].fwdEv = 0]
    /\ last' = NoCall
    /\ UNCHANGED <<wsVars, repoVars, lockVars, client, emitted>>
    /\ UNCHANGED <<subscribers, buf, chanKey, deliveries, workers, panicked>>

\* Forwarder, select:  case c <- &DeliveryResolver{...}  with room in c
ForwardSend(s) ==
    /\ ~panicked
    /\ subs[s].fwd = "select"
    /\ ~subs[s].outClosed
    /\ Len(subs[s].out) < OutCap
    /\ subs' = [subs EXCEPT ![s].fwd = "recv", ![s].fwdEv = 0,
                            ![s].out = Append(@, subs[s].fwdEv)]
    /\ last' = NoCall
    /\ UNCHANGED <<wsVars, repoVars, lockVars, client, emitted>>
    /\ UNCHANGED <<subscribers, buf, chanKey, deliveries, workers, panicked>>

\* Forwarder, select:  case c <- ...  chosen when c is closed: the send panics.
ForwardPanic(s) ==
    /\ ~panicked
    /\ subs[s].fwd = "select"
    /\ subs[s].outClosed
    /\ panicked' = TRUE
    /\ subs' = [subs EXCEPT ![s].fwd = "panic"]
    /\ last' = NoCall
    /\ UNCHANGED <<wsVars, repoVars, lockVars, client, emitted>>
    /\ UNCHANGED <<subscribers, buf, chanKey, deliveries, workers>>

\* The reader of c (the GraphQL engine) takes a resolver.
OutReceive(s) ==
    /\ ~panicked
    /\ subs[s].out # <<>>
    /\ subs' = [subs EXCEPT ![s].out = Tail(@)]
    /\ last' = NoCall
    /\ UNCHANGED <<wsVars, repoVars, lockVars, client, emitted>>
    /\ UNCHANGED <<subscribers, buf, chanKey, deliveries, workers, panicked>>

Subscription(s) ==
    \/ Cancel(s)
    \/ CleanupUnsubscribe(s)
    \/ CleanupClose(s)
    \/ ForwardReceive(s)
    \/ ForwardDone(s)
    \/ ForwardSend(s)
    \/ ForwardPanic(s)
    \/ OutReceive(s)

Next ==
    \/ \E arg \in SubscriptionArgs : DeliveryUpdated(arg)
    \/ \E s \in 1..Len(subs) : Subscription(s)
    \/ \E w \in Mutators, p \in PurchaseIDInputs, st \in StatusInputs, dbOk \in BOOLEAN :
           CreateDelivery(w, p, st, dbOk)
    \/ \E w \in Workers : PublishStep(w)

Spec == Init /\ [][Next]_vars

\* A forwarder that sends the event and offers it again.
ForwardSendAgain(s) ==
    /\ ~panicked
    /\ subs[s].fwd = "select"
    /\ ~subs[s].outClosed
    /\ Len(subs[s].out) < OutCap
    /\ Len(emitted[s]) < MaxDeliveries
    /\ subs' = [subs EXCEPT ![s].out = Append(@, subs[s].fwdEv)]
    /\ emitted' = [emitted EXCEPT ![s] = Append(@, subs[s].fwdEv)]
    /\ last' = NoCall
    /\ UNCHANGED <<wsVars, repoVars, lockVars, client>>
    /\ UNCHANGED <<subscribers, buf, chanKey, deliveries, workers, panicked>>

\* The forwarder's send on c, kept in the history of the subscription.
ForwardSendRecorded(s) ==
    /\ ~panicked
    /\ subs[s].fwd = "select"
    /\ ~subs[s].outClosed
    /\ Len(subs[s].out) < OutCap
    /\ subs' = [subs EXCEPT ![s].fwd = "recv", ![s].fwdEv = 0,
                            ![s].out = Append(@, subs[s].fwdEv)]
    /\ emitted' = [emitted EXCEPT ![s] = Append(@, subs[s].fwdEv)]
    /\ last' = NoCall
    /\ UNCHANGED <<wsVars, repoVars, lockVars, client>>
    /\ UNCHANGED <<subscribers, buf, chanKey, deliveries, workers, panicked>>

\* The resolvers with the history of what each subscription sent on c.
NextForward ==
    \/ \E arg \in SubscriptionArgs : DeliveryUpdated(arg)
    \/ \E s \in 1..Len(subs) :
           \/ Cancel(s)
           \/ CleanupUnsubscribe(s)
           \/ CleanupClose(s)
           \/ ForwardReceive(s)
           \/ ForwardDone(s)
           \/ ForwardSendRecorded(s)
           \/ ForwardPanic(s)
           \/ OutReceive(s)
    \/ \E w \in Mutators, p \in PurchaseIDInputs, st \in StatusInputs, dbOk \in BOOLEAN :
           CreateDelivery(w, p, st, dbOk)
    \/ \E w \in Workers : PublishStep(w)

SpecForward == Init /\ [][NextForward]_vars

\* The clean-up goroutine of subscription s, and its forwarder.
Cleaner(s) == s \in 1..Len(subs) /\ CleanupClose(s)

Unsubscriber(s) == s \in 1..Len(subs) /\ CleanupUnsubscribe(s)

Forwarder(s) ==
    /\ s \in 1..Len(subs)
    /\ ForwardReceive(s) \/ ForwardDone(s) \/ ForwardSend(s) \/ ForwardPanic(s)

\* The scheduler runs every goroutine that can run, and a goroutine waiting in
\* b.mu.Lock() gets the mutex before readers that come later.  Nobody owes a
\* mutation, a cancellation or a receive from c.
SpecFair ==
    /\ Init
    /\ [][Next]_vars
    /\ \A w \in Workers : WF_vars(PublishStep(w))
    /\ \A s \in 1..MaxSubs :
           SF_vars(Unsubscriber(s)) /\ WF_vars(Cleaner(s)) /\ WF_vars(Forwarder(s))

(***************************************************************************)
(* The status of a delivery on its way in, through the switch of            *)
(* CreateDelivery, and on its way out, through DeliveryResolver.Status.      *)
(* last records the call and what it gave.                                   *)
(***************************************************************************)

\* A Status that spells the last value the British way.
StatusCancelled(stored) ==
    CASE stored = "packed" -> "PACKED"
      [] stored = "out_for_delivery" -> "OUT_FOR_DELIVERY"
      [] stored = "delivered" -> "DELIVERED"
      [] stored = "rescheduled" -> "RESCHEDULED"
      [] stored = "canceled" -> "CANCELLED"
      [] OTHER -> "UNKNOWN"

\* DeliveryResolver.Status of a delivery whose Status field is stored.
Status(stored) ==
    CASE stored = "packed" -> "PACKED"
      [] stored = "out_for_delivery" -> "OUT_FOR_DELIVERY"
      [] stored = "delivered" -> "DELIVERED"
      [] stored = "rescheduled" -> "RESCHEDULED"
      [] stored = "canceled" -> "CANCELED"
      [] OTHER -> "UNKNOWN"

\* The values of the column: what CreateDelivery stores for the five.
DBStatuses == {"packed", "out_for_delivery", "delivered", "rescheduled", "canceled"}

\* Statuses a client may send, and values a row may hold.
StatusWords ==
    DeliveryStatusEnum \cup DBStatuses \cup {"SHIPPED", "UNKNOWN", "Packed", "", "lost"}

\* The mutation with input status: an error, or the delivery it returns.
MutateStatus(purchaseID, status, dbOk) ==
    /\ last' = [op |-> "CreateDelivery", purchaseID |-> purchaseID, input |-> status,
                dbOk |-> dbOk, result |-> CreateDeliveryResult(purchaseID, status, dbOk)]
    /\ UNCHANGED <<subscribers, buf, chanKey, deliveries, workers, subs, panicked>>
    /\ UNCHANGED <<wsVars, repoVars, lockVars, client, emitted>>

\* A delivery read from the table, whatever its status column holds.
LoadDelivery(stored) ==
    /\ last' = [op |-> "Load", input |-> stored,
                result |-> [err |-> FALSE, row |-> [purchaseID |-> 1, status |-> stored]]]
    /\ UNCHANGED <<subscribers, buf, chanKey, deliveries, workers, subs, panicked>>
    /\ UNCHANGED <<wsVars, repoVars, lockVars, client, emitted>>

\* The status field of the delivery at hand is resolved.
ResolveStatus ==
    /\ last.op \in {"CreateDelivery", "Load"}
    /\ ~last.result.err
    /\ last' = [op |-> "Status", from |-> last.op, input |-> last.input,
                stored |-> last.result.row.status,
                shown |-> Status(last.result.row.status)]
    /\ UNCHANGED <<subscribers, buf, chanKey, deliveries, workers, subs, panicked>>
    /\ UNCHANGED <<wsVars, repoVars, lockVars, client, emitted>>

NextStatus ==
    \/ \E p \in PurchaseIDInputs, st \in StatusWords, dbOk \in BOOLEAN :
           MutateStatus(p, st, dbOk)
    \/ \E stored \in StatusWords : LoadDelivery(stored)
    \/ ResolveStatus

SpecStatus == Init /\ [][NextStatus]_vars

(***************************************************************************)
(* The WebSocket endpoint /graphql/ws: handleWebSocketConnection.  The       *)
(* handler reads one message after the other; a start message makes a quit   *)
(* channel and a goroutine that writes a made-up delivery at every tick of   *)
(* its 5 s ticker until it finds quit closed.  The handler calls neither the *)
(* resolver nor the EventBus.                                                *)
(***************************************************************************)

\* Ids of subscriptions a client uses.
SubIds == {"s1", "s2"}

\* A payload that sendMessage leaves out (nil).
NoPayload == [nil |-> TRUE]

\* A message that has all three fields whatever their values.
MessageAllFields(messageType, id, payload) ==
    [f \in {"type", "id", "payload"} |->
        CASE f = "type" -> messageType
          [] f = "id" -> id
          [] f = "payload" -> payload]

\* The JSON object sendMessage writes: "id" only when id is not "", "payload"
\* only when there is one.
Message(messageType, id, payload) ==
    [f \in {"type"} \cup (IF id # "" THEN {"id"} ELSE {})
                    \cup (IF payload # NoPayload THEN {"payload"} ELSE {}) |->
        CASE f = "type" -> messageType
          [] f = "id" -> id
          [] f = "payload" -> payload]

ErrorMessageWithoutId(id, errorMessage) ==
    Message("error", "", [message |-> errorMessage])

\* sendErrorMessage: type "error", the text as payload.message.
ErrorMessage(id, errorMessage) == Message("error", id, [message |-> errorMessage])

\* conn.WriteJSON(msg): fails, and is only logged, once the connection is closed.
WriteJSON(out, c, msg) ==
    IF conns[c].state = "open" THEN [out EXCEPT ![c] = Append(@, msg)] ELSE out

\* A step of the handler that writes needs room in the bounded record of writes.
CanWrite(c) == Len(wsOut[c]) < MaxOut

\* The read loop of a handler among the tasks that write to its connection;
\* the goroutine of a start is the number of its quit channel, from 1 on.
Loop == 0

Reads(c) == ~panicked /\ conns[c].state = "open" /\ Loop \notin conns[c].writing

WSFrame == UNCHANGED <<busVars, repoVars, client, emitted>>

\* The message read is not a JSON envelope.
RecvMalformed(c) ==
    /\ Reads(c)
    /\ CanWrite(c)
    /\ wsOut' = WriteJSON(wsOut, c, ErrorMessage("", "Invalid message format"))
    /\ conns' = [conns EXCEPT ![c].handled = "malformed"]
    /\ UNCHANGED handles
    /\ WSFrame

\* case "connection_init"
RecvConnectionInit(c) ==
    /\ Reads(c)
    /\ CanWrite(c)
    /\ wsOut' = WriteJSON(wsOut, c, Message("connection_ack", "", NoPayload))
    /\ conns' = [conns EXCEPT ![c].handled = "connection_init"]
    /\ UNCHANGED handles
    /\ WSFrame

\* case "start": payloadOk is whether message.Payload parses; arg is
\* variables["purchaseId"].  An id already in the map is overwritten.
RecvStart(c, id, arg, payloadOk) ==
    /\ Reads(c)
    /\ IF ~payloadOk
       THEN /\ CanWrite(c)
            /\ wsOut' = WriteJSON(wsOut, c, ErrorMessage(id, "Invalid subscription payload"))
            /\ conns' = [conns EXCEPT ![c].handled = "start"]
            /\ UNCHANGED handles
       ELSE /\ Len(handles) < MaxStarts
            /\ handles' = Append(handles, [conn |-> c, id |-> id, arg |-> arg,
                                           closed |-> FALSE, closes |-> 0,
                                           task |-> "run"])
            /\ conns' = [conns EXCEPT ![c].subscriptions =
                            [i \in DOMAIN @ \cup {id} |->
                                IF i = id THEN Len(handles) + 1 ELSE @[i]],
                                   ![c].handled = "start"]
            /\ UNCHANGED wsOut
    /\ WSFrame

\* A stop that closes the quit channel and leaves it in the map.
RecvStopKeepsEntry(c, id) ==
    /\ Reads(c)
    /\ CanWrite(c)
    /\ IF id \in DOMAIN conns[c].subscriptions
       THEN handles' = [handles EXCEPT ![conns[c].subscriptions[id]].closed = TRUE,
                                       ![conns[c].subscriptions[id]].closes = @ + 1]
       ELSE UNCHANGED handles
    /\ conns' = [conns EXCEPT ![c].handled = "stop"]
    /\ wsOut' = WriteJSON(wsOut, c, Message("complete", id, NoPayload))
    /\ WSFrame

\* A stop that closes the quit channel of the id and empties the map.
RecvStopClearsMap(c, id) ==
    /\ Reads(c)
    /\ CanWrite(c)
    /\ IF id \in DOMAIN conns[c].subscriptions
       THEN handles' = [handles EXCEPT ![conns[c].subscriptions[id]].closed = TRUE,
                                       ![conns[c].subscriptions[id]].closes = @ + 1]
       ELSE UNCHANGED handles
    /\ conns' = [conns EXCEPT ![c].subscriptions = <<>>, ![c].handled = "stop"]
    /\ wsOut' = WriteJSON(wsOut, c, Message("complete", id, NoPayload))
    /\ WSFrame

\* A stop that answers an id it does not know with an error message.
RecvStopUnknownIsError(c, id) ==
    /\ Reads(c)
    /\ CanWrite(c)
    /\ IF id \in DOMAIN conns[c].subscriptions
       THEN /\ handles' = [handles EXCEPT ![conns[c].subscriptions[id]].closed = TRUE,
                                           ![conns[c].subscriptions[id]].closes = @ + 1]
            /\ conns' = [conns EXCEPT ![c].subscriptions =
                            [i \in DOMAIN @ \ {id} |-> @[i]],
                                   ![c].handled = "stop"]
            /\ wsOut' = WriteJSON(wsOut, c, Message("complete", id, NoPayload))
       ELSE /\ conns' = [conns EXCEPT ![c].handled = "stop"]
            /\ wsOut' = WriteJSON(wsOut, c, ErrorMessage(id, "Unknown subscription"))
            /\ UNCHANGED handles
    /\ WSFrame

\* case "stop": close(quit) and delete when the id is in the map; "complete"
\* is sent in either case.
RecvStop(c, id) ==
    /\ Reads(c)
    /\ CanWrite(c)
    /\ IF id \in DOMAIN conns[c].subscriptions
       THEN /\ handles' = [handles EXCEPT ![conns[c].subscriptions[id]].closed = TRUE,
                                           ![conns[c].subscriptions[id]].closes = @ + 1]
            /\ conns' = [conns EXCEPT ![c].subscriptions =
                            [i \in DOMAIN @ \ {id} |-> @[i]],
                                   ![c].handled = "stop"]
       ELSE /\ conns' = [conns EXCEPT ![c].handled = "stop"]
            /\ UNCHANGED handles
    /\ wsOut' = WriteJSON(wsOut, c, Message("complete", id, NoPayload))
    /\ WSFrame

\* The handler returns: the deferred function closes every quit of the map,
\* then the caller's deferred conn.Close() runs.
Return(c) ==
    /\ handles' = [h \in 1..Len(handles) |->
                      IF \E id \in DOMAIN conns[c].subscriptions :
                             conns[c].subscriptions[id] = h
                      THEN [handles[h] EXCEPT !.closed = TRUE, !.closes = @ + 1]
                      ELSE handles[h]]
    /\ conns' = [conns EXCEPT ![c].state = "closed"]
    /\ UNCHANGED wsOut
    /\ WSFrame

\* case "connection_terminate": return
RecvConnectionTerminate(c) == Reads(c) /\ Return(c)

\* conn.ReadMessage() fails: break
ReadError(c) == Reads(c) /\ Return(c)

\* default: the type is only logged.
RecvUnknown(c) ==
    /\ Reads(c)
    /\ conns' = [conns EXCEPT ![c].handled = "unknown"]
    /\ UNCHANGED <<handles, wsOut>>
    /\ WSFrame

\* The goroutine of a start, select:  case <-ticker.C
Tick(h) ==
    /\ ~panicked
    /\ handles[h].task = "run"
    /\ conns[handles[h].conn].state = "open" => CanWrite(handles[h].conn)
    /\ wsOut' = WriteJSON(wsOut, handles[h].conn,
                          Message("data", handles[h].id, [purchaseId |-> handles[h].arg]))
    /\ UNCHANGED <<conns, handles>>
    /\ WSFrame

\* The goroutine of a start, select:  case <-quit: return
Quit(h) ==
    /\ ~panicked
    /\ handles[h].task = "run"
    /\ handles[h].closed
    /\ handles' = [handles EXCEPT ![h].task = "exit"]
    /\ UNCHANGED <<conns, wsOut>>
    /\ WSFrame

NextWS ==
    \/ \E c \in Conns : RecvMalformed(c)
    \/ \E c \in Conns : RecvConnectionInit(c)
    \/ \E c \in Conns, id \in SubIds, arg \in SubscriptionArgs, payloadOk \in BOOLEAN :
           RecvStart(c, id, arg, payloadOk)
    \/ \E c \in Conns, id \in SubIds : RecvStop(c, id)
    \/ \E c \in Conns : RecvConnectionTerminate(c)
    \/ \E c \in Conns : ReadError(c)
    \/ \E c \in Conns : RecvUnknown(c)
    \/ \E h \in 1..Len(handles) : Tick(h)
    \/ \E h \in 1..Len(handles) : Quit(h)

SpecWS == Init /\ [][NextWS]_vars

\* Two clients that send start, stop and connection_terminate messages.
NextSessions ==
    \/ \E c \in AllConns, id \in SubIds, payloadOk \in BOOLEAN :
           RecvStart(c, id, NoPurchaseID, payloadOk)
    \/ \E c \in AllConns, id \in SubIds : RecvStop(c, id)
    \/ \E c \in AllConns : RecvConnectionTerminate(c)
    \/ \E h \in 1..Len(handles) : Tick(h)
    \/ \E h \in 1..Len(handles) : Quit(h)

SpecSessions == Init /\ [][NextSessions]_vars

(***************************************************************************)
(* The writes to a connection, each in two steps: the task enters           *)
(* conn.WriteJSON through sendMessage, and the message is out when it        *)
(* leaves.  The handler's loop is the task Loop, the goroutine of a start    *)
(* is the number of its quit channel.                                        *)
(***************************************************************************)

\* There is room in the bounded record of writes for one more write.
CanEnter(c) == Len(wsOut[c]) + Cardinality(conns[c].writing) < MaxOut

\* case "connection_init": sendMessage(conn, "connection_ack", "", nil) is called.
AckBegin(c) ==
    /\ Reads(c)
    /\ CanEnter(c)
    /\ conns' = [conns EXCEPT ![c].writing = @ \cup {Loop}]
    /\ UNCHANGED <<handles, wsOut>>
    /\ WSFrame

\* conn.WriteJSON returns to the loop.
AckEnd(c) ==
    /\ ~panicked
    /\ Loop \in conns[c].writing
    /\ wsOut' = WriteJSON(wsOut, c, Message("connection_ack", "", NoPayload))
    /\ conns' = [conns EXCEPT ![c].writing = @ \ {Loop},
                              ![c].handled = "connection_init"]
    /\ UNCHANGED handles
    /\ WSFrame

\* case <-ticker.C: sendMessage(conn, "data", id, data) is called.
DataBegin(h) ==
    /\ ~panicked
    /\ handles[h].task = "run"
    /\ h \notin conns[handles[h].conn].writing
    /\ conns[handles[h].conn].state = "open"
    /\ CanEnter(handles[h].conn)
    /\ conns' = [conns EXCEPT ![handles[h].conn].writing = @ \cup {h}]
    /\ UNCHANGED <<handles, wsOut>>
    /\ WSFrame

\* conn.WriteJSON returns to the goroutine.
DataEnd(h) ==
    /\ ~panicked
    /\ h \in conns[handles[h].conn].writing
    /\ wsOut' = WriteJSON(wsOut, handles[h].conn,
                          Message("data", handles[h].id, [purchaseId |-> handles[h].arg]))
    /\ conns' = [conns EXCEPT ![handles[h].conn].writing = @ \ {h}]
    /\ UNCHANGED handles
    /\ WSFrame

NextWrite ==
    \/ \E c \in Conns, id \in SubIds, arg \in SubscriptionArgs : RecvStart(c, id, arg, TRUE)
    \/ \E c \in Conns : AckBegin(c)
    \/ \E c \in Conns : AckEnd(c)
    \/ \E h \in 1..Len(handles) : DataBegin(h)
    \/ \E h \in 1..Len(handles) : DataEnd(h)

SpecWrite == Init /\ [][NextWrite]_vars

(***************************************************************************)
(* The command-line client: executeSubscription.  The server is whatever    *)
(* answers: every read draws the type of the message it gets, or fails, and  *)
(* every write succeeds or fails.                                            *)
(***************************************************************************)

\* Ids uuid.New() may give.
ClientIds == {"id1", "id2"}

\* Types of the messages a read may give; "readerr" is a read that fails.
ServerTypes == {"connection_ack", "data", "error", "complete", "ka"}

ClientFrame == UNCHANGED <<busVars, wsVars, repoVars, emitted>>

\* return fmt.Errorf(...) with the deferred conn.Close(), if dialled.
ReturnError(cl, dialled) ==
    [cl EXCEPT !.pc = "returned", !.result = "error", !.closed = dialled]

\* A written message.
ClientMessage(messageType, id) == [type |-> messageType, id |-> id]

\* A read that takes any message for the acknowledgement.
ReadAckAnyType(outcome) ==
    /\ client.pc = "ack"
    /\ client' = IF outcome = "readerr"
                 THEN ReturnError([client EXCEPT !.first = outcome], TRUE)
                 ELSE [client EXCEPT !.pc = "start", !.first = outcome]
    /\ ClientFrame

\* websocket.DefaultDialer.Dial and uuid.New().
Dial(ok, id) ==
    /\ client.pc = "dial"
    /\ client' = IF ok THEN [client EXCEPT !.pc = "init", !.id = id]
                       ELSE ReturnError(client, FALSE)
    /\ ClientFrame

\* conn.WriteJSON(initMessage)
WriteInit(ok) ==
    /\ client.pc = "init"
    /\ client' = IF ok
                 THEN [client EXCEPT !.pc = "ack",
                                     !.sent = Append(@, ClientMessage("connection_init", ""))]
                 ELSE ReturnError(client, TRUE)
    /\ ClientFrame

\* conn.ReadJSON(&ackMessage) and the test of ackMessage.Type.
ReadAck(outcome) ==
    /\ client.pc = "ack"
    /\ client' = IF outcome = "connection_ack"
                 THEN [client EXCEPT !.pc = "start", !.first = outcome]
                 ELSE ReturnError([client EXCEPT !.first = outcome], TRUE)
    /\ ClientFrame

\* conn.WriteJSON(startMessage); the reader goroutine starts after it.
WriteStart(ok) ==
    /\ client.pc = "start"
    /\ client' = IF ok
                 THEN [client EXCEPT !.pc = "listen", !.reader = "run",
                                     !.sent = Append(@, ClientMessage("start", client.id))]
                 ELSE ReturnError(client, TRUE)
    /\ ClientFrame

\* The reader goroutine: conn.ReadJSON(&message) and the switch on the type.
\* It returns, closing done, on a failed read and on complete.
ReaderRead(outcome) ==
    /\ client.reader = "run"
    /\ Len(client.read) < MaxRead
    /\ client' = [client EXCEPT !.read = Append(@, outcome),
                                !.reader = IF outcome \in {"readerr", "complete"}
                                           THEN "done" ELSE "run"]
    /\ ClientFrame

\* <-c: the interrupt signal.
Interrupt ==
    /\ client.pc = "listen"
    /\ client' = [client EXCEPT !.pc = "stop", !.interrupted = TRUE]
    /\ ClientFrame

\* conn.WriteJSON(stopMessage)
WriteStop(ok) ==
    /\ client.pc = "stop"
    /\ client' = IF ok
                 THEN [client EXCEPT !.pc = "wait", !.stopTried = TRUE,
                                     !.sent = Append(@, ClientMessage("stop", client.id))]
                 ELSE ReturnError([client EXCEPT !.stopTried = TRUE], TRUE)
    /\ ClientFrame

\* select { case <-done: case <-time.After(1 * time.Second): }, then the close
\* message (its error is not looked at), return nil and the deferred
\* conn.Close().  timedOut is whether the second case was taken.
CloseConnection(timedOut, ok) ==
    /\ client.pc = "wait"
    /\ ~timedOut => client.reader = "done"
    /\ client' = [client EXCEPT !.pc = "returned", !.result = "nil", !.closed = TRUE,
                                !.sent = IF ok THEN Append(@, ClientMessage("close", ""))
                                               ELSE @]
    /\ ClientFrame

NextClient ==
    \/ \E ok \in BOOLEAN, id \in ClientIds : Dial(ok, id)
    \/ \E ok \in BOOLEAN : WriteInit(ok)
    \/ \E outcome \in ServerTypes \cup {"readerr"} : ReadAck(outcome)
    \/ \E ok \in BOOLEAN : WriteStart(ok)
    \/ \E outcome \in ServerTypes \cup {"readerr"} : ReaderRead(outcome)
    \/ Interrupt
    \/ \E ok \in BOOLEAN : WriteStop(ok)
    \/ \E timedOut, ok \in BOOLEAN : CloseConnection(timedOut, ok)

SpecClient == Init /\ [][NextClient]_vars

(***************************************************************************)
(* The repository: the statements GetListings builds from its filter.  A    *)
(* pointer is a set: {} for nil, {v} for a pointer to v.                     *)
(***************************************************************************)

Nil == {}

Deref(ptr) == CHOOSE v \in ptr : TRUE

\* strings.Join(elems, sep)
RECURSIVE Join(_, _)
Join(elems, sep) ==
    IF elems = <<>> THEN ""
    ELSE IF Len(elems) = 1 THEN elems[1]
    ELSE elems[1] \o sep \o Join(Tail(elems), sep)

\* conditions, args and argCount before the first if.
NoConditions == [conditions |-> <<>>, args |-> <<>>, argCount |-> 1]

\* An if that forgets argCount++.
AddConditionSameArg(b, ptr, format, arg) ==
    IF ptr # Nil
    THEN [conditions |-> Append(b.conditions, format \o ToString(b.argCount)),
          args |-> Append(b.args, arg),
          argCount |-> b.argCount]
    ELSE b

\* if filter.F != nil { conditions = append(conditions, fmt.Sprintf(format, argCount))
\*                      args = append(args, arg); argCount++ }
\* with format given up to its %d.
AddCondition(b, ptr, format, arg) ==
    IF ptr # Nil
    THEN [conditions |-> Append(b.conditions, format \o ToString(b.argCount)),
          args |-> Append(b.args, arg),
          argCount |-> b.argCount + 1]
    ELSE b

\* query and args as GetListings hands them to db.Query.
ListingsQuery(filter) ==
    LET f == Deref(filter)
        b0 == NoConditions
        b1 == AddCondition(b0, f.SellerID, "seller_id = $",
                           IF f.SellerID # Nil THEN Deref(f.SellerID) ELSE 0)
        b2 == AddCondition(b1, f.MinPrice, "price >= $",
                           IF f.MinPrice # Nil THEN Deref(f.MinPrice) ELSE 0)
        b3 == AddCondition(b2, f.MaxPrice, "price <= $",
                           IF f.MaxPrice # Nil THEN Deref(f.MaxPrice) ELSE 0)
        b4 == AddCondition(b3, f.Title, "title ILIKE $",
                           IF f.Title # Nil
                           THEN "%" \o Deref(f.Title) \o "%" ELSE "")
        b == IF filter # Nil THEN b4 ELSE b0
        query == "SELECT id, seller_id, title, description, price FROM listings"
    IN  [query |-> IF Len(b.conditions) > 0
                   THEN query \o " WHERE " \o Join(b.conditions, " AND ")
                   ELSE query,
         args |-> b.args]

\* Filters callers pass: nil, or a ListingFilter with each field nil or set.
ListingFilters ==
    {Nil} \cup {{f} : f \in [SellerID : {Nil, {1}, {2}}, MinPrice : {Nil, {0}, {50}},
                             MaxPrice : {Nil, {100}, {200}},
                             Title : {Nil, {""}, {"a"}, {"test"}}]}

\* r.GetListings(filter), up to the call of db.Query.
GetListings(filter) ==
    /\ sql' = [op |-> "GetListings", filter |-> filter,
               query |-> ListingsQuery(filter).query, args |-> ListingsQuery(filter).args]
    /\ UNCHANGED <<busVars, wsVars, client, emitted>>

\* A GetDeliveries that orders only a statement with a WHERE clause.
DeliveriesQueryOrderAfterWhere(filter) ==
    LET f == Deref(filter)
        b0 == NoConditions
        b1 == AddCondition(b0, f.PurchaseID, "purchase_id = $",
                           IF f.PurchaseID # Nil THEN Deref(f.PurchaseID) ELSE 0)
        b2 == AddCondition(b1, f.Status, "status = $",
                           IF f.Status # Nil THEN Deref(f.Status) ELSE 0)
        b3 == AddCondition(b2, f.FromDate, "timestamp >= $",
                           IF f.FromDate # Nil THEN Deref(f.FromDate) ELSE 0)
        b4 == AddCondition(b3, f.ToDate, "timestamp <= $",
                           IF f.ToDate # Nil THEN Deref(f.ToDate) ELSE 0)
        b == IF filter # Nil THEN b4 ELSE b0
        query == "SELECT id, purchase_id, timestamp, status FROM deliveries"
    IN  [query |-> IF Len(b.conditions) > 0
                   THEN query \o " WHERE " \o Join(b.conditions, " AND ")
                              \o " ORDER BY timestamp DESC"
                   ELSE query,
         args |-> b.args]

\* query and args as GetDeliveries hands them to db.Query.
DeliveriesQuery(filter) ==
    LET f == Deref(filter)
        b0 == NoConditions
        b1 == AddCondition(b0, f.PurchaseID, "purchase_id = $",
                           IF f.PurchaseID # Nil THEN Deref(f.PurchaseID) ELSE 0)
        b2 == AddCondition(b1, f.Status, "status = $",
                           IF f.Status # Nil THEN Deref(f.Status) ELSE 0)
        b3 == AddCondition(b2, f.FromDate, "timestamp >= $",
                           IF f.FromDate # Nil THEN Deref(f.FromDate) ELSE 0)
        b4 == AddCondition(b3, f.ToDate, "timestamp <= $",
                           IF f.ToDate # Nil THEN Deref(f.ToDate) ELSE 0)
        b == IF filter # Nil THEN b4 ELSE b0
        query == "SELECT id, purchase_id, timestamp, status FROM deliveries"
    IN  [query |-> (IF Len(b.conditions) > 0
                    THEN query \o " WHERE " \o Join(b.conditions, " AND ")
                    ELSE query) \o " ORDER BY timestamp DESC",
         args |-> b.args]

\* Filters callers pass: nil, or a DeliveryFilter with each field nil or set;
\* a time.Time is the number of its instant.
DeliveryFilters ==
    {Nil} \cup {{f} : f \in [PurchaseID : {Nil, {1}, {2}},
                             Status : {Nil, {"packed"}, {"delivered"}},
                             FromDate : {Nil, {10}, {20}},
                             ToDate : {Nil, {20}, {30}}]}

\* r.GetDeliveries(filter), up to the call of db.Query.
GetDeliveries(filter) ==
    /\ sql' = [op |-> "GetDeliveries", filter |-> filter,
               query |-> DeliveriesQuery(filter).query,
               args |-> DeliveriesQuery(filter).args]
    /\ UNCHANGED <<busVars, wsVars, client, emitted>>

NextRepo ==
    \/ \E filter \in ListingFilters : GetListings(filter)
    \/ \E filter \in DeliveryFilters : GetDeliveries(filter)

SpecRepo == Init /\ [][NextRepo]_vars

(***************************************************************************)
(* Properties of the EventBus.                                              *)
(***************************************************************************)

\* The channels registered under key k.
RegisteredUnder(k) == IF k \in DOMAIN subscribers THEN subscribers[k] ELSE {}

\* The key PublishDelivery looks the delivery d up with.
KeyOf(d) == Itoa(deliveries[d].purchaseID)

\* The channels a PublishDelivery of d has to offer the event to.
Interested(d) == RegisteredUnder(KeyOf(d)) \cup RegisteredUnder(Wildcard)

\* The channels worker w has sent on, and those its publish has to offer to.
Offered(w) == workers[w].got \cup workers[w].skipped

InterestedIn(w) == Interested(workers[w].ev)

\* Worker w has visited every channel and still holds the read lock.
Finished(w) == workers[w].pc = "global" /\ workers[w].todo = {}

\* This step is worker w's send on channel ch.
Visits(w, ch) ==
    /\ Reading(w)
    /\ ch \in workers[w].todo
    /\ ch \notin workers'[w].todo
    /\ workers'[w] # workers[w]

C2_NoForeignEvent ==
    /\ \A ch \in Chans : \A i \in 1..Len(buf[ch]) :
           chanKey[ch] \in {Wildcard, KeyOf(buf[ch][i])}
    /\ \A w \in Workers : \A ch \in workers[w].got \cup workers[w].skipped :
           chanKey[ch] \in {Wildcard, KeyOf(workers[w].ev)}
    /\ \A k \in DOMAIN subscribers : \A ch \in subscribers[k] : chanKey[ch] = k

\* A publish for purchase 2 has ended while a channel was registered for
\* purchase 1: the wildcard channel got the event, the other was not visited.
C2_Witness ==
    \E w \in Workers : \E c1 \in RegisteredUnder(Str("1")) :
        \E c2 \in RegisteredUnder(Wildcard) :
            /\ Finished(w)
            /\ deliveries[workers[w].ev].purchaseID = 2
            /\ c2 \in workers[w].got
            /\ c1 \notin workers[w].got \cup workers[w].skipped
            /\ buf[c1] = <<>>

\* C4: no key of the subscribers map has an empty channel set.
C4_NoEmptyKey == \A k \in DOMAIN subscribers : subscribers[k] # {}

\* The last channel of a key was unsubscribed and the key is gone, another
\* key still being there.
C4_Witness ==
    /\ DOMAIN subscribers # {}
    /\ \E ch \in Chans : chanKey[ch] \notin DOMAIN subscribers

\* C5: a queue never holds more than ChanCap events, and a send on a full queue
\* leaves the queue as it is: the events queued first stay, in their order, and
\* the newest one is the one dropped.
C5_BoundedDropNewest ==
    [][ /\ \A ch \in DOMAIN buf' : Len(buf'[ch]) <= ChanCap
        /\ \A w \in Workers : \A ch \in Chans :
              Visits(w, ch) /\ Len(buf[ch]) >= ChanCap
                  => /\ buf'[ch] = buf[ch]
                     /\ ch \in workers'[w].skipped
                     /\ ch \notin workers'[w].got
      ]_vars

\* ChanCap + 1 events were published to a channel nobody reads: the first is
\* queued, the newest was skipped.
C5_Witness ==
    \E w \in Workers : \E ch \in workers[w].skipped :
        /\ Len(buf[ch]) = ChanCap
        /\ \A i \in 1..Len(buf[ch]) : buf[ch][i] < workers[w].ev

\* C6: a worker inside PublishDelivery can always take its next step, whatever
\* the queues hold, and visits no channel twice.
C6_PublishNeverBlocks ==
    \A w \in Workers :
        Reading(w) =>
            /\ ENABLED PublishStep(w)
            /\ workers[w].todo \cap (workers[w].got \cup workers[w].skipped) = {}
            /\ workers[w].got \cap workers[w].skipped = {}

\* A worker is about to send on a channel whose queue is full.
C6_Witness ==
    \E w \in Workers : \E ch \in workers[w].todo :
        Reading(w) /\ Len(buf[ch]) = ChanCap

\* C7: a send on a full channel changes no queue, and the worker goes on with
\* the channels it has not visited yet: the rest of the current loop, then the
\* subscribers of all deliveries.
C7_DropIsLocal ==
    [][ \A w \in Workers : \A ch \in Chans :
            Visits(w, ch) /\ Len(buf[ch]) >= ChanCap
                => /\ buf' = buf
                   /\ Reading(w)'
                   /\ workers'[w].ev = workers[w].ev
                   /\ workers'[w].got = workers[w].got
                   /\ (workers[w].todo \ {ch}) \subseteq workers'[w].todo
                   /\ workers[w].pc = "keyed" /\ workers'[w].pc = "global"
                          => workers'[w].todo = RegisteredUnder(Wildcard)
      ]_vars

\* One publish skipped a full channel and queued its event on another one.
C7_Witness ==
    \E w \in Workers : \E c1 \in workers[w].skipped : \E c2 \in workers[w].got :
        /\ Finished(w)
        /\ buf[c2] = <<workers[w].ev>>
        /\ buf[c1] # <<>>
        /\ buf[c1][1] # workers[w].ev

\* C8: Unsubscribe(key, ch) takes ch out of the set of key and drops the key
\* when the set becomes empty; with the key absent, or ch not in its set, the
\* map is left as it was; a second Unsubscribe(key, ch) changes nothing.
C8_UnsubscribeIdempotent ==
    last.op = "Unsubscribe" =>
        LET pre == last.pre
            k == last.key
            ch == last.ch
        IN  /\ IF k \in DOMAIN pre /\ ch \in pre[k]
               THEN /\ \A j \in DOMAIN pre \ {k} :
                          j \in DOMAIN subscribers /\ subscribers[j] = pre[j]
                    /\ DOMAIN subscribers \subseteq DOMAIN pre
                    /\ IF pre[k] = {ch}
                       THEN k \notin DOMAIN subscribers
                       ELSE k \in DOMAIN subscribers /\ subscribers[k] = pre[k] \ {ch}
               ELSE subscribers = pre
            /\ Unsubscribe(subscribers, k, ch) = subscribers

\* Unsubscribe was called again for a channel already taken out of its key,
\* while another channel keeps the key in the map.
C8_Witness ==
    /\ last.op = "Unsubscribe"
    /\ last.ch \in Chans
    /\ chanKey[last.ch] = last.key
    /\ last.key \in DOMAIN last.pre
    /\ last.ch \notin last.pre[last.key]

(***************************************************************************)
(* Properties of the resolvers.                                             *)
(***************************************************************************)

\* The subscriptions started without a purchase id.
Unkeyed == {s \in 1..Len(subs) : subs[s].arg = NoPurchaseID}

\* C3: a subscription started without a purchase id has the wildcard key and
\* is registered under it from DeliveryUpdated until its clean-up unsubscribes
\* it; while it is registered, every PublishDelivery offers it the event,
\* whatever the purchase of the event, and the event is appended to its queue
\* whenever the queue has room at that send.
C3_WildcardSubscription ==
    [][ /\ \A s \in Unkeyed' :
            /\ subs'[s].key = Wildcard
            /\ chanKey'[s] = Wildcard
            /\ subs'[s].cleanup = "wait" => s \in RegisteredUnder(Wildcard)'
        /\ \A w \in Workers :
            /\ Finished(w)' => (Unkeyed' \cap RegisteredUnder(Wildcard)') \subseteq Offered(w)'
            /\ \A s \in Unkeyed :
                   Visits(w, s) /\ Len(buf[s]) < ChanCap
                       => buf'[s] = Append(buf[s], workers[w].ev)
      ]_vars

\* A subscription without a purchase id has received a delivery of one
\* purchase and has a delivery of another purchase waiting in its queue.
C3_Witness ==
    \E s \in Unkeyed :
        /\ s \in RegisteredUnder(Wildcard)
        /\ Len(subs[s].out) = 1
        /\ Len(buf[s]) = 1
        /\ deliveries[subs[s].out[1]].purchaseID # deliveries[buf[s][1]].purchaseID

\* This step is worker w's call of the CreateDelivery mutation.
Mutates(w) == workers[w].pc = "idle" /\ workers'[w] # workers[w]

\* C9: a CreateDelivery call with a numeric id of an existing purchase, one
\* of the five statuses and a successful insert writes one row and starts one
\* PublishDelivery, whose event is that row, the row of the purchase given; any
\* other call fails: it writes nothing, starts no publish and queues nothing.
\* Rows are written and publishes are started by no other step, and no event
\* is published twice.
C9_PublishIffWritten ==
    [][ /\ \A w \in Workers :
            Mutates(w) =>
                IF workers'[w].inputOk
                THEN /\ workers'[w].res = "ok"
                     /\ Len(deliveries') = Len(deliveries) + 1
                     /\ SubSeq(deliveries', 1, Len(deliveries)) = deliveries
                     /\ Reading(w)'
                     /\ workers'[w].ev = Len(deliveries')
                     /\ deliveries'[Len(deliveries')].purchaseID = NumberOf(workers'[w].arg)
                ELSE /\ workers'[w].res = "err"
                     /\ ~Reading(w)'
                     /\ UNCHANGED <<deliveries, buf, subscribers>>
        /\ deliveries' # deliveries => \E w \in Workers : Mutates(w)
        /\ \A w \in Workers :
            /\ Reading(w)' /\ ~Reading(w) => Mutates(w)
            /\ Reading(w) /\ Reading(w)' => workers'[w].ev = workers[w].ev
            /\ Reading(w)' => workers'[w].ev \in 1..Len(deliveries')
      ]_vars

\* A second delivery has been written and its publish has queued it on a
\* subscriber's channel.
C9_Witness ==
    \E w \in Workers :
        /\ Reading(w)
        /\ workers[w].res = "ok"
        /\ workers[w].ev = 2
        /\ workers[w].got # {}

(***************************************************************************)
(* Properties of the WebSocket session.                                     *)
(***************************************************************************)

\* The key a start with variables["purchaseId"] = arg asks for.
StartKey(h) == PurchaseIDStr(handles[h].arg)

\* C10: once a start message is handled, the EventBus has a channel
\* registered under the key of the start (the wildcard key without a purchase
\* id) for as long as the id is in the subscriptions map of the connection.
C10_StartRegisters ==
    \A c \in Conns : \A id \in DOMAIN conns[c].subscriptions :
        RegisteredUnder(StartKey(conns[c].subscriptions[id])) # {}

\* Message m has the given type and id.
IsMsg(m, messageType, id) ==
    m.type = messageType /\ "id" \in DOMAIN m /\ m.id = id

\* The number of messages of that type and id written to connection c.
Written(c, messageType, id) ==
    Cardinality({i \in 1..Len(wsOut[c]) : IsMsg(wsOut[c][i], messageType, id)})

\* C11: every data message of an id answers a published delivery of its own,
\* so an id never has more data messages than deliveries were published.
C11_DataOnlyForPublished ==
    \A c \in Conns : \A id \in SubIds :
        Written(c, "data", id) <= Len(deliveries)

\* The quit channels made on connection c for id by the starts handled so far.
HandlesOf(c, id) ==
    {h \in 1..Len(handles) : handles[h].conn = c /\ handles[h].id = id}

\* Those of them that are not closed: their goroutines were never told to stop.
Uncancelled(c, id) == {h \in HandlesOf(c, id) : ~handles[h].closed}

\* C12: a connection never has two uncancelled goroutines for the same id.
C12_OneTaskPerId ==
    \A c \in Conns : \A id \in SubIds : Cardinality(Uncancelled(c, id)) <= 1

\* C13: an id never has more complete messages written than starts handled.
C13_CompleteAtMostOncePerStart ==
    \A c \in Conns : \A id \in SubIds :
        Written(c, "complete", id) <= Cardinality(HandlesOf(c, id))

\* C14: once every quit channel made for an id is closed (a stop closes it and
\* writes complete(id) in the same step of the read loop) and until a start
\* uses the id again, no step writes a data message of that id.
C14_NoDataAfterComplete ==
    [][ \A c \in Conns : \A id \in SubIds :
            HandlesOf(c, id) # {} /\ Uncancelled(c, id) = {}
                => Written(c, "data", id)' = Written(c, "data", id)
      ]_vars

\* C15: once the handler of a connection has returned, every quit channel made
\* on the connection is closed: no goroutine of it is left uncancelled.
C15_CloseCancelsAll ==
    \A c \in Conns :
        conns[c].state = "closed" =>
            \A h \in 1..Len(handles) : handles[h].conn = c => handles[h].closed

\* The last message written to connection c.
LastOut(c) == wsOut[c][Len(wsOut[c])]

\* This step writes exactly one message to c, and nothing to other connections.
WritesOne(c) ==
    /\ Len(wsOut'[c]) = Len(wsOut[c]) + 1
    /\ SubSeq(wsOut'[c], 1, Len(wsOut[c])) = wsOut[c]
    /\ \A d \in Conns \ {c} : wsOut'[d] = wsOut[d]

\* This step leaves the subscriptions maps, the quit channels and their
\* goroutines as they are, and the read loop of c goes on.
SessionUnchanged(c) ==
    /\ \A d \in Conns : conns'[d].subscriptions = conns[d].subscriptions
    /\ \A d \in Conns : conns'[d].state = conns[d].state
    /\ handles' = handles
    /\ Reads(c)'

\* C16: a message that is no JSON envelope is answered with one error message
\* without id, a start whose payload does not parse with one error message
\* with the id of the start; either leaves the session as it is and the read
\* loop running.
C16_MalformedGivesOneError ==
    [][ \A c \in Conns :
            /\ RecvMalformed(c) =>
                   /\ WritesOne(c)
                   /\ LastOut(c)'.type = "error"
                   /\ "id" \notin DOMAIN LastOut(c)'
                   /\ SessionUnchanged(c)
            /\ \A id \in SubIds, arg \in SubscriptionArgs :
                   RecvStart(c, id, arg, FALSE) =>
                       /\ WritesOne(c)
                       /\ IsMsg(LastOut(c)', "error", id)
                       /\ SessionUnchanged(c)
      ]_vars

\* An unparseable envelope and then a start with an unparseable payload were
\* answered, and the connection has no subscription.
C16_Witness ==
    \E c \in Conns : \E id \in SubIds :
        /\ Len(wsOut[c]) = 2
        /\ wsOut[c][1].type = "error" /\ "id" \notin DOMAIN wsOut[c][1]
        /\ IsMsg(wsOut[c][2], "error", id)
        /\ conns[c].handled = "start"
        /\ conns[c].subscriptions = <<>>
        /\ conns[c].state = "open"

\* C17: a message of any other type than connection_init, start, stop and
\* connection_terminate is answered with one error message, and the session
\* stays as it is.
C17_UnknownTypeGivesError ==
    [][ \A c \in Conns :
            RecvUnknown(c) =>
                /\ WritesOne(c)
                /\ LastOut(c)'.type = "error"
                /\ SessionUnchanged(c)
      ]_vars

\* C18: a stop for an id that is not in the subscriptions map leaves the maps,
\* the quit channels and the goroutines as they are (no quit channel is
\* closed) and writes no error message; what it writes is one complete(id).
C18_StopUnknownId ==
    [][ \A c \in Conns : \A id \in SubIds :
            RecvStop(c, id) /\ id \notin DOMAIN conns[c].subscriptions =>
                /\ SessionUnchanged(c)
                /\ \A h \in 1..Len(handles) : handles'[h].closed = handles[h].closed
                /\ WritesOne(c)
                /\ LastOut(c)'.type # "error"
                /\ IsMsg(LastOut(c)', "complete", id)
      ]_vars

\* A stop for an id that was never started was handled while the goroutine of
\* another id runs uncancelled.
C18_Witness ==
    \E c \in Conns : \E id, other \in SubIds :
        /\ conns[c].handled = "stop"
        /\ HandlesOf(c, id) = {}
        /\ IsMsg(LastOut(c), "complete", id)
        /\ other \in DOMAIN conns[c].subscriptions
        /\ \E h \in Uncancelled(c, other) : handles[h].task = "run"

\* The connection_ack messages written to connection c.
Acks(c) == {i \in 1..Len(wsOut[c]) : wsOut[c][i].type = "connection_ack"}

\* C19: handling a connection_init writes exactly one message, of type
\* connection_ack and with no other field, and leaves the subscriptions maps,
\* quit channels and goroutines as they are; no other step writes a
\* connection_ack.
C19_InitAcked ==
    [][ \A c \in Conns :
            /\ RecvConnectionInit(c) =>
                   /\ WritesOne(c)
                   /\ LastOut(c)'.type = "connection_ack"
                   /\ DOMAIN LastOut(c)' = {"type"}
                   /\ SessionUnchanged(c)
            /\ Acks(c)' # Acks(c) => RecvConnectionInit(c)
      ]_vars

\* A connection_init handled after a start: the ack is the last message
\* written and the subscription is still in the map.
C19_Witness ==
    \E c \in Conns :
        /\ conns[c].handled = "connection_init"
        /\ Len(wsOut[c]) > 0
        /\ LastOut(c) = [type |-> "connection_ack"]
        /\ conns[c].subscriptions # <<>>

(***************************************************************************)
(* Properties of the repository.                                            *)
(***************************************************************************)

\* The conditions of GetListings in their fixed order, and the fields of the
\* filter in that order.
ListingColumns == <<"seller_id =", "price >=", "price <=", "title ILIKE">>

ListingFields(filter) ==
    LET f == Deref(filter) IN <<f.SellerID, f.MinPrice, f.MaxPrice, f.Title>>

\* The positions of the fields that are set.
FieldsSet(filter) ==
    IF filter = Nil THEN {} ELSE {i \in 1..4 : ListingFields(filter)[i] # Nil}

\* The place of field i among the fields that are set.
Rank(filter, i) == Cardinality({j \in FieldsSet(filter) : j <= i})

\* The text field i adds to the statement.
Clause(filter, i) ==
    IF i \in FieldsSet(filter)
    THEN (IF Rank(filter, i) = 1 THEN " WHERE " ELSE " AND ")
             \o ListingColumns[i] \o " $" \o ToString(Rank(filter, i))
    ELSE ""

\* C20: the statement of GetListings is the SELECT followed, for the fields
\* that are set and in the order seller_id, price >=, price <=, title ILIKE,
\* by one condition each, the first after WHERE and the others after AND,
\* with the placeholders $1..$n; the arguments are the n values in the same
\* order, the title between two % signs.  With a nil filter or no field set
\* that is the bare SELECT and no argument.
C20_ListingsQuery ==
    sql.op = "GetListings" =>
        LET filter == sql.filter
            n == Cardinality(FieldsSet(filter))
        IN  /\ sql.query = "SELECT id, seller_id, title, description, price FROM listings"
                               \o Clause(filter, 1) \o Clause(filter, 2)
                               \o Clause(filter, 3) \o Clause(filter, 4)
            /\ Len(sql.args) = n
            /\ \A i \in FieldsSet(filter) :
                   sql.args[Rank(filter, i)] =
                       IF i = 4 THEN "%" \o Deref(ListingFields(filter)[4]) \o "%"
                       ELSE Deref(ListingFields(filter)[i])
            /\ n = 0 => sql.args = <<>>

\* A filter with only MinPrice and Title set: the placeholders are $1 and $2.
C20_Witness ==
    /\ sql.op = "GetListings"
    /\ sql.query = "SELECT id, seller_id, title, description, price FROM listings"
                       \o " WHERE price >= $1 AND title ILIKE $2"
    /\ sql.args = <<50, "%test%">>

\* The conditions of GetDeliveries in their fixed order, and the fields of the
\* filter in that order.
DeliveryColumns == <<"purchase_id =", "status =", "timestamp >=", "timestamp <=">>

DeliveryFields(filter) ==
    LET f == Deref(filter) IN <<f.PurchaseID, f.Status, f.FromDate, f.ToDate>>

DeliveryFieldsSet(filter) ==
    IF filter = Nil THEN {} ELSE {i \in 1..4 : DeliveryFields(filter)[i] # Nil}

DeliveryRank(filter, i) == Cardinality({j \in DeliveryFieldsSet(filter) : j <= i})

DeliveryClause(filter, i) ==
    IF i \in DeliveryFieldsSet(filter)
    THEN (IF DeliveryRank(filter, i) = 1 THEN " WHERE " ELSE " AND ")
             \o DeliveryColumns[i] \o " $" \o ToString(DeliveryRank(filter, i))
    ELSE ""

\* C21: the statement of GetDeliveries is the SELECT followed, for the fields
\* that are set and in the order purchase_id, status, timestamp >=,
\* timestamp <=, by one condition each with the placeholders $1..$n, and then,
\* with or without conditions, by ORDER BY timestamp DESC; the arguments are
\* the n values in the same order.
C21_DeliveriesQuery ==
    sql.op = "GetDeliveries" =>
        LET filter == sql.filter
            n == Cardinality(DeliveryFieldsSet(filter))
        IN  /\ sql.query = "SELECT id, purchase_id, timestamp, status FROM deliveries"
                               \o DeliveryClause(filter, 1) \o DeliveryClause(filter, 2)
                               \o DeliveryClause(filter, 3) \o DeliveryClause(filter, 4)
                               \o " ORDER BY timestamp DESC"
            /\ Len(sql.args) = n
            /\ \A i \in DeliveryFieldsSet(filter) :
                   sql.args[DeliveryRank(filter, i)] = Deref(DeliveryFields(filter)[i])

\* A nil filter: the statement is ordered although it has no WHERE clause.
C21_Witness ==
    /\ sql.op = "GetDeliveries"
    /\ sql.filter = Nil
    /\ sql.query = "SELECT id, purchase_id, timestamp, status FROM deliveries"
                       \o " ORDER BY timestamp DESC"
    /\ sql.args = <<>>

(***************************************************************************)
(* Properties of the EventBus under concurrency.                            *)
(***************************************************************************)

\* C22: the map changes in no step taken while a PublishDelivery is between
\* its RLock and its RUnlock, so a publish works on the map as one subscribe or
\* unsubscribe left it: the channels it has visited and has still to visit
\* are channels registered for its event, and an event is only ever queued on
\* a channel that is registered at that moment under the key it was made for
\* (on no channel that an Unsubscribe has taken out).
C22_PublishAtomic ==
    [][ /\ subscribers' # subscribers => \A w \in Workers : ~Reading(w) /\ ~Reading(w)'
        /\ \A w \in Workers :
               Reading(w)' =>
                   (workers'[w].todo \cup Offered(w)') \subseteq InterestedIn(w)'
        /\ \A ch \in Chans :
               Len(buf'[ch]) > Len(buf[ch]) => ch \in RegisteredUnder(chanKey[ch])
      ]_vars

\* A publish has ended without a visit to a channel of its key that was
\* unsubscribed before, while it queued its event on a channel still registered.
C22_Witness ==
    \E w \in Workers : \E gone, kept \in Chans :
        /\ Finished(w)
        /\ chanKey[gone] \in {Wildcard, KeyOf(workers[w].ev)}
        /\ gone \notin RegisteredUnder(chanKey[gone])
        /\ gone \notin Offered(w)
        /\ buf[gone] = <<>>
        /\ kept \in workers[w].got

KeysOf(ch) == {k \in DOMAIN subscribers : ch \in subscribers[k]}

\* C24: a channel is in the registry under at most one key, the key it was
\* made for, and every registered channel was made by a subscribe call.
C24_OneKeyPerChannel ==
    /\ \A ch \in Chans : KeysOf(ch) \subseteq {chanKey[ch]}
    /\ \A k \in DOMAIN subscribers : subscribers[k] \subseteq Chans

\* Two channels are registered, under different keys.
C24_Witness ==
    \E c1, c2 \in Chans :
        /\ c1 # c2
        /\ KeysOf(c1) # {} /\ KeysOf(c2) # {}
        /\ KeysOf(c1) # KeysOf(c2)

\* The channels of the bus that have been closed.  The clean-up goroutine
\* closes c, the channel the resolvers go out on; no statement closes a
\* channel made by SubscribeToDeliveries.
ClosedEvents == {}

\* C25: once the clean-up of a subscription has run, its channel is out of the
\* registry and closed, and no closed channel is registered.
C25_RemovedThenClosed ==
    /\ \A s \in 1..Len(subs) :
           subs[s].cleanup = "done" =>
               /\ s \notin RegisteredUnder(subs[s].key)
               /\ s \in ClosedEvents
    /\ \A ch \in ClosedEvents : KeysOf(ch) = {}

\* Subscription s exists and its context has been cancelled.
Cancelled(s) == s \in 1..Len(subs) /\ subs[s].ctxDone

\* The forwarder of subscription s has left its loop.
ForwarderGone(s) == s \in 1..Len(subs) /\ subs[s].fwd \in {"exit", "panic"}

\* C26: once the context of a subscription is cancelled its forwarder leaves
\* its loop, also when no further event comes.
C26_ForwarderExits ==
    \A s \in 1..MaxSubs : Cancelled(s) ~> ForwarderGone(s)

\* The channel of subscription s is out of the registry, and its key with it
\* unless other channels are left under the key.
Released(s) ==
    /\ s \in 1..Len(subs)
    /\ KeysOf(s) = {}
    /\ subs[s].key \in DOMAIN subscribers => subscribers[subs[s].key] # {}

\* C27: once the context of a subscription is cancelled, its channel leaves the
\* registry, whether or not anybody takes what the subscription still has to
\* write, for as long as the process lives.
C27_CancelUnsubscribes ==
    \A s \in 1..MaxSubs : Cancelled(s) ~> (Released(s) \/ panicked)

\* The channel was released while a resolver lay in c that nobody had taken.
C27_Witness ==
    \E s \in 1..Len(subs) :
        /\ subs[s].ctxDone
        /\ subs[s].cleanup # "wait"
        /\ Released(s)
        /\ Len(subs[s].out) = OutCap

\* The goroutines started on connection c that have not returned.
Running(c) == {h \in 1..Len(handles) : handles[h].conn = c /\ handles[h].task = "run"}

\* C28: a connection is closed only once every goroutine started on it has
\* returned, so none is left to write to it afterwards.
C28_ClosedAfterTasks ==
    \A c \in Conns : conns[c].state = "closed" => Running(c) = {}

\* The quit channels that are in the subscriptions map of connection c.
InMap(c) == {conns[c].subscriptions[id] : id \in DOMAIN conns[c].subscriptions}

\* C29: no quit channel is closed twice, whatever start, stop,
\* connection_terminate and read errors come.
C29_QuitClosedOnce ==
    \A h \in 1..Len(handles) : handles[h].closes <= 1

\* The handler has returned; one quit channel was closed by a stop before and
\* another by the deferred clean-up.
C29_Witness ==
    \E c \in Conns : \E h1, h2 \in 1..Len(handles) :
        /\ conns[c].state = "closed"
        /\ handles[h1].conn = c /\ handles[h2].conn = c
        /\ h1 \notin InMap(c) /\ handles[h1].closes = 1
        /\ h2 \in InMap(c) /\ handles[h2].closes = 1

\* The entry of id in the subscriptions map of connection c, as a set.
Entry(c, id) ==
    IF id \in DOMAIN conns[c].subscriptions THEN {conns[c].subscriptions[id]} ELSE {}

\* C30: a stop(id) and a start(id) whose payload does not parse leave alone the
\* map entries of the other ids of the connection, every quit channel and
\* goroutine but the one of the entry of id, and all of every other connection.
C30_OthersUnchanged ==
    [][ \A c \in AllConns : \A id \in SubIds :
            (RecvStop(c, id) \/ \E arg \in SubscriptionArgs : RecvStart(c, id, arg, FALSE)) =>
                /\ \A d \in AllConns \ {c} : conns'[d] = conns[d] /\ wsOut'[d] = wsOut[d]
                /\ \A i \in SubIds \ {id} : Entry(c, i)' = Entry(c, i)
                /\ Len(handles') = Len(handles)
                /\ \A h \in 1..Len(handles) :
                       h \notin Entry(c, id) => handles'[h] = handles[h]
      ]_vars

\* A stop has closed the quit channel of an id on one connection while a
\* subscription of the other connection goes on.
C30_Witness ==
    \E c, d \in AllConns : \E h1, h2 \in 1..Len(handles) :
        /\ c # d
        /\ conns[c].handled = "stop"
        /\ handles[h1].conn = c /\ handles[h1].closed /\ h1 \notin InMap(c)
        /\ handles[h2].conn = d /\ ~handles[h2].closed /\ h2 \in InMap(d)
        /\ handles[h2].task = "run"

C32_StartNeedsInit ==
    \A h \in 1..Len(handles) : Acks(handles[h].conn) # {}

\* C33: no forwarder comes to send on its output channel once the clean-up
\* goroutine has closed it.
C33_NoSendOnClosed ==
    \A s \in 1..Len(subs) : subs[s].fwd # "panic"

\* C34: at most one task is inside a write to a connection at any time.
C34_OneWriter ==
    \A c \in AllConns : Cardinality(conns[c].writing) <= 1

\* C35: one PublishDelivery visits a channel at most once, so it queues its
\* event there at most once: the key of a delivery is never the key "" of the
\* second loop, and what the second loop has to visit was not visited by the
\* first.
C35_OncePerChannel ==
    [][ \A w \in Workers :
            /\ \A ch \in Chans : Visits(w, ch) => ch \notin Offered(w)
            /\ Reading(w)' =>
                   /\ KeyOf(workers[w].ev)' # Wildcard
                   /\ workers'[w].todo \cap Offered(w)' = {}
      ]_vars

\* A publish has queued its event on a channel of its key and is in its
\* second loop with a channel of the key "" to visit.
C35_Witness ==
    \E w \in Workers : \E c1 \in workers[w].got : \E c2 \in workers[w].todo :
        /\ workers[w].pc = "global"
        /\ chanKey[c1] = KeyOf(workers[w].ev)
        /\ chanKey[c2] = Wildcard
        /\ buf[c1] = <<workers[w].ev>>

\* C36: the status CreateDelivery stores for one of the five GraphQL statuses
\* comes back from DeliveryResolver.Status as the same status; CreateDelivery
\* fails for every other status; and Status gives UNKNOWN exactly for a stored
\* value outside the five.
C36_StatusRoundTrip ==
    /\ last.op = "CreateDelivery" =>
           /\ last.input \notin DeliveryStatusEnum => last.result.err
           /\ ~last.result.err => last.result.row.status \in DBStatuses
    /\ last.op = "Status" =>
           /\ last.from = "CreateDelivery" =>
                  last.input \in DeliveryStatusEnum /\ last.shown = last.input
           /\ last.shown = "UNKNOWN" <=> last.stored \notin DBStatuses
           /\ last.shown # "UNKNOWN" => last.shown \in DeliveryStatusEnum

\* A delivery made with status CANCELED has been resolved.
C36_Witness ==
    /\ last.op = "Status"
    /\ last.from = "CreateDelivery"
    /\ last.input = "CANCELED"
    /\ last.stored = "canceled"

\* C37: the client writes start only after it has written connection_init and
\* read a connection_ack; when its first read fails or gives another type it
\* returns an error and has written no start; and after an interrupt it writes
\* stop with the id of its start before it closes the connection.
C37_ClientProtocol ==
    LET SentAt(messageType) ==
            {i \in 1..Len(client.sent) : client.sent[i].type = messageType}
    IN  /\ \A i \in SentAt("start") :
               /\ client.first = "connection_ack"
               /\ \E j \in SentAt("connection_init") : j < i
        /\ client.first \notin {"none", "connection_ack"} =>
               /\ client.result = "error"
               /\ SentAt("start") = {}
        /\ client.interrupted /\ client.closed => client.stopTried
        /\ \A i \in SentAt("close") :
               /\ i > 1
               /\ client.sent[i - 1] = ClientMessage("stop", client.id)
               /\ \E j \in SentAt("start") : client.sent[j].id = client.id
        /\ \A i \in SentAt("stop") : client.interrupted /\ client.sent[i].id = client.id

\* The client has gone through its whole exchange and closed the connection.
C37_Witness ==
    /\ client.closed
    /\ client.result = "nil"
    /\ Len(client.sent) = 4
    /\ client.read # <<>>

=============================================================================
